---- MODULE Spec2Model ----
(***************************************************************************)
(* riffraff: a command-line client for a Jenkins server.                   *)
(* The model follows main.go (src/unnamed/part_000): main's start-up       *)
(* checks and dispatch, the five subcommands, the goroutines that          *)
(* statusExec and nodes launch, and the sync.WaitGroup that joins them.    *)
(* Text is a sequence of one-character strings, so that regexp matching    *)
(* and fmt.Printf can be computed character by character.                  *)
(***************************************************************************)
EXTENDS Integers, Sequences, FiniteSets, TLC

VARIABLES
    env,            \* JENKINS_URL, JENKINS_USER, JENKINS_PW as main reads them
    pc,             \* position of the main goroutine
    cmd,            \* the subcommand kingpin.Parse() returned ("" before)
    authed,         \* jenkins.Init() has succeeded
    reqs,           \* the kinds of request sent to the server so far
    items,          \* local `jobs` (statusExec, openExec) or `nodes` (nodes)
    idx,            \* number of loop iterations done in statusExec/nodes/openExec
    wg,             \* the sync.WaitGroup counter
    wpc,            \* position of each launched goroutine
    wres,           \* per goroutine: `result` (printStatus) / outcome of Poll()
    werr,           \* per goroutine: the error it returned ("nil" if none)
    out,            \* standard output, one record per Printf/Println call
    tabs,           \* the URLs handed to open.Run, in call order
    err,            \* `err` of main after the subcommand returned
    exit,           \* how the process ended: [code, diag]
    args,           \* the parsed command line: regex, job, salt
    logs,           \* locals of logsExec: lastBuild, result, consoleOutput
    mIn,            \* inputs of a stand-alone findMatchingJobs call
    mOut            \* its result

vars == <<env, pc, cmd, authed, reqs, items, idx, wg, wpc, wres, werr, out,
          tabs, err, exit, args, logs, mIn, mOut>>

(***************************************************************************)
(* Bounds of the model.                                                    *)
(***************************************************************************)
MaxJobs == 3        \* jobs the server lists for `status`
MaxOpenJobs == 4    \* jobs the server lists for `open`
MaxNodes == 3       \* nodes the server lists for `nodes`
MaxText == 3        \* tokens in a console text
MaxMatchJobs == 3   \* jobs in a stand-alone findMatchingJobs call
MaxPat == 2         \* characters in a stand-alone pattern

Min(a, b) == IF a < b THEN a ELSE b

(***************************************************************************)
(* Text helpers.                                                           *)
(***************************************************************************)
RECURSIVE Flatten(_)
Flatten(ss) == IF ss = <<>> THEN <<>> ELSE Head(ss) \o Flatten(Tail(ss))

Hyphens == <<"-", "-", "-", "-", "-", "-", "-", "-", "-", "-">>
ResultFalse == <<"R", "e", "s", "u", "l", "t", ":", " ", "F", "a", "l", "s", "e">>

\* s[i..] starts with p
StartsAt(s, i, p) ==
    /\ i + Len(p) - 1 <= Len(s)
    /\ \A k \in 1..Len(p) : s[i + k - 1] = p[k]

Contains(s, p) == \E i \in 1..(Len(s) + 1) : StartsAt(s, i, p)

\* strings.Split(s, sep) for a non-empty sep: cut at each leftmost occurrence
RECURSIVE SplitFrom(_, _, _, _)
SplitFrom(s, sep, i, cur) ==
    IF i > Len(s) THEN <<cur>>
    ELSE IF StartsAt(s, i, sep)
         THEN <<cur>> \o SplitFrom(s, sep, i + Len(sep), <<>>)
         ELSE SplitFrom(s, sep, i + 1, Append(cur, s[i]))

Split(s, sep) == SplitFrom(s, sep, 1, <<>>)

getFailedSaltStates(output) ==
    SelectSeq(Split(output, Hyphens), LAMBDA state : Contains(state, ResultFalse))

(***************************************************************************)
(* fmt.Printf(format) called with no operands (logsExec, salt = false):    *)
(* fmt's doPrintf.  After a '%' come the flags "#0+- ", an argument index  *)
(* "[n]", a width (digits or '*'), a precision ('.' then an index, digits  *)
(* or '*'), an argument index, and the verb.  With no operand a '*' width  *)
(* writes "%!(BADWIDTH)", a '*' precision "%!(BADPREC)", any argument      *)
(* index is out of range so the verb c writes "%!c(BADINDEX)", and         *)
(* otherwise the verb c writes "%!c(MISSING)"; the verb '%' writes "%";    *)
(* the end of the format in place of a verb writes "%!(NOVERB)".           *)
(***************************************************************************)
FmtFlags == {"#", "0", "+", "-", " "}

Digits == {"0", "1", "2", "3", "4", "5", "6", "7", "8", "9"}

DigitVal(c) ==
    CASE c = "0" -> 0 [] c = "1" -> 1 [] c = "2" -> 2 [] c = "3" -> 3
      [] c = "4" -> 4 [] c = "5" -> 5 [] c = "6" -> 6 [] c = "7" -> 7
      [] c = "8" -> 8 [] c = "9" -> 9

\* fmt's tooLarge: a number beyond a million gives up on the rest
TooLarge(num) == num > 1000000

RECURSIVE ParseNumLoop(_, _, _, _, _)
ParseNumLoop(f, i, last, num, isnum) ==
    IF i <= last /\ f[i] \in Digits
    THEN IF TooLarge(num) THEN [isnum |-> FALSE, newi |-> last + 1]
         ELSE ParseNumLoop(f, i + 1, last, num * 10 + DigitVal(f[i]), TRUE)
    ELSE [isnum |-> isnum, newi |-> i]

\* fmt's parsenum over f[start..last]: newi is the first position not read
parsenum(f, start, last) ==
    IF start > last THEN [isnum |-> FALSE, newi |-> last + 1]
    ELSE ParseNumLoop(f, start, last, 0, FALSE)

\* fmt's parseArgNumber on f[i..], where f[i] = "[": the width of the
\* bracketed index and whether it is a number
parseArgNumber(f, i) ==
    LET closing == {j \in (i + 1)..Len(f) : f[j] = "]"} IN
    IF Len(f) - i + 1 < 3 \/ closing = {} THEN [wid |-> 1, ok |-> FALSE]
    ELSE LET j == CHOOSE x \in closing : \A y \in closing : x <= y
             n == parsenum(f, i + 1, j - 1)
         IN  [wid |-> j - i + 1, ok |-> n.isnum /\ n.newi = j]

\* fmt's argNumber with no operands: an index is never in range, so finding
\* a '[' clears goodArgNum
argNumber(f, i) ==
    IF i > Len(f) \/ f[i] # "[" THEN [newi |-> i, found |-> FALSE, good |-> TRUE]
    ELSE LET pa == parseArgNumber(f, i) IN
         [newi |-> i + pa.wid, found |-> pa.ok, good |-> FALSE]

RECURSIVE SkipFlags(_, _)
SkipFlags(f, i) ==
    IF i <= Len(f) /\ f[i] \in FmtFlags THEN SkipFlags(f, i + 1) ELSE i

BadWidth == <<"%", "!", "(", "B", "A", "D", "W", "I", "D", "T", "H", ")">>
BadPrec == <<"%", "!", "(", "B", "A", "D", "P", "R", "E", "C", ")">>
NoVerb == <<"%", "!", "(", "N", "O", "V", "E", "R", "B", ")">>
BadIndex(c) == <<"%", "!", c, "(", "B", "A", "D", "I", "N", "D", "E", "X", ")">>
Missing(c) == <<"%", "!", c, "(", "M", "I", "S", "S", "I", "N", "G", ")">>

\* the width of a directive: i is the position after it, pre what was
\* written, after is afterIndex, good is goodArgNum
FmtWidth(f, i) ==
    LET a == argNumber(f, i) IN
    IF a.newi <= Len(f) /\ f[a.newi] = "*"
    THEN [i |-> a.newi + 1, pre |-> BadWidth, after |-> FALSE, good |-> a.good]
    ELSE LET n == parsenum(f, a.newi, Len(f)) IN
         [i |-> n.newi, pre |-> <<>>, after |-> a.found,
          good |-> a.good /\ ~(a.found /\ n.isnum)]

\* the precision of a directive, after its width w
FmtPrec(f, w) ==
    IF w.i <= Len(f) /\ f[w.i] = "."
    THEN LET a == argNumber(f, w.i + 1)
             good == w.good /\ ~w.after /\ a.good
         IN  IF a.newi <= Len(f) /\ f[a.newi] = "*"
             THEN [i |-> a.newi + 1, pre |-> w.pre \o BadPrec, after |-> FALSE,
                   good |-> good]
             ELSE [i |-> parsenum(f, a.newi, Len(f)).newi, pre |-> w.pre,
                   after |-> a.found, good |-> good]
    ELSE w

RECURSIVE doPrintf(_, _)
doPrintf(f, i) ==
    IF i > Len(f) THEN <<>>
    ELSE IF f[i] # "%" THEN <<f[i]>> \o doPrintf(f, i + 1)
    ELSE LET p == FmtPrec(f, FmtWidth(f, SkipFlags(f, i + 1)))
             a == IF p.after THEN [newi |-> p.i, found |-> TRUE, good |-> TRUE]
                  ELSE argNumber(f, p.i)
             j == a.newi
         IN  IF j > Len(f) THEN p.pre \o NoVerb
             ELSE IF f[j] = "%" THEN p.pre \o <<"%">> \o doPrintf(f, j + 1)
             ELSE IF ~(p.good /\ a.good) THEN p.pre \o BadIndex(f[j]) \o doPrintf(f, j + 1)
             ELSE p.pre \o Missing(f[j]) \o doPrintf(f, j + 1)

Printf(f) == doPrintf(f, 1)

(***************************************************************************)
(* regexp.MatchString(pattern, s) on the patterns the model draws:         *)
(* literals, "." (any character), a postfix "*", and "[" which, with no    *)
(* "]" available, never compiles.  A "*" with nothing to repeat (at the    *)
(* start, or right after another "*") does not compile either.             *)
(***************************************************************************)
RECURSIVE Compile(_, _)
Compile(p, i) ==
    IF i > Len(p) THEN [ok |-> TRUE, prog |-> <<>>]
    ELSE IF p[i] \in {"[", "*"} THEN [ok |-> FALSE, prog |-> <<>>]
    ELSE LET star == i < Len(p) /\ p[i + 1] = "*"
             rest == Compile(p, IF star THEN i + 2 ELSE i + 1)
         IN  [ok |-> rest.ok,
              prog |-> <<[ch |-> p[i], star |-> star]>> \o rest.prog]

CharMatch(c, x) == c = "." \/ c = x

\* prog[k..] matches some prefix of s[i..]
RECURSIVE MatchPrefix(_, _, _, _)
MatchPrefix(prog, k, s, i) ==
    IF k > Len(prog) THEN TRUE
    ELSE IF prog[k].star
         THEN \/ MatchPrefix(prog, k + 1, s, i)
              \/ /\ i <= Len(s)
                 /\ CharMatch(prog[k].ch, s[i])
                 /\ MatchPrefix(prog, k, s, i + 1)
         ELSE /\ i <= Len(s)
              /\ CharMatch(prog[k].ch, s[i])
              /\ MatchPrefix(prog, k + 1, s, i + 1)

\* (matched, err): an unanchored search; a pattern that does not compile
\* gives (false, err)
MatchString(pattern, s) ==
    LET re == Compile(pattern, 1) IN
    IF ~re.ok THEN [match |-> FALSE, err |-> "error parsing regexp"]
    ELSE [match |-> \E i \in 1..(Len(s) + 1) : MatchPrefix(re.prog, 1, s, i),
          err |-> "nil"]

\* the loop of findMatchingJobs over the jobs the server listed: the error of
\* MatchString is dropped, a matching job is appended
RECURSIVE MatchLoop(_, _, _, _)
MatchLoop(jobs, regex, i, matchingJobs) ==
    IF i > Len(jobs) THEN matchingJobs
    ELSE MatchLoop(jobs, regex, i + 1,
                   IF MatchString(regex, jobs[i].Name).match
                   THEN Append(matchingJobs, jobs[i])
                   ELSE matchingJobs)

\* a buggy loop: a matching job is put in front
RECURSIVE MatchLoopPrepend(_, _, _, _)
MatchLoopPrepend(jobs, regex, i, matchingJobs) ==
    IF i > Len(jobs) THEN matchingJobs
    ELSE MatchLoopPrepend(jobs, regex, i + 1,
                   IF MatchString(regex, jobs[i].Name).match
                   THEN <<jobs[i]>> \o matchingJobs
                   ELSE matchingJobs)

findMatchingJobsPrepend(jobs, regex) ==
    [jobs |-> MatchLoopPrepend(jobs, regex, 1, <<>>), err |-> "nil"]

\* findMatchingJobs once GetAllJobNames has answered with `jobs`
findMatchingJobs(jobs, regex) ==
    [jobs |-> MatchLoop(jobs, regex, 1, <<>>), err |-> "nil"]

(***************************************************************************)
(* What the server and the command line can hold.                          *)
(***************************************************************************)
Job(name) == [Name |-> name, Url |-> <<"/", "j", "o", "b", "/">> \o name]

\* the job names of the server, in the order GetAllJobNames lists them
Catalogue == << <<"a">>, <<"a", "b">>, <<"b">>, <<"b", "a">>, <<"b", "b">>, <<"a", "a">> >>

JobList(n) == [i \in 1..Min(n, Len(Catalogue)) |-> Job(Catalogue[i])]

NodeCatalogue == << <<"m">>, <<"n", "1">>, <<"n", "2">>, <<"n", "3">> >>

NodeList(n) == [i \in 1..Min(n, Len(NodeCatalogue)) |-> [Name |-> NodeCatalogue[i]]]

\* the regex argument: the default ".*", a literal, a malformed pattern
Regexes == { <<".", "*">>, <<"a">>, <<"[">> }

Commands == {"status", "logs", "queue", "nodes", "open"}

\* result strings of a build
Results == {"SUCCESS", "FAILURE", "ABORTED"}

\* the pieces a console text is made of
Tokens == { <<"a">>, <<"%">>, <<"d">>, <<"5">>, <<".">>, <<"*">>, <<"[", "1", "]">>,
            Hyphens, ResultFalse }

ConsoleTexts ==
    { Flatten(t) : t \in UNION { [1..k -> Tokens] : k \in 0..MaxText } }

NilBuild == [isNil |-> TRUE, Url |-> <<>>]

NoArgs == [regex |-> <<>>, job |-> <<>>, salt |-> FALSE]

NoLogs == [lastBuild |-> NilBuild, result |-> <<>>, consoleOutput |-> <<>>,
           jobErr |-> "nil", buildErr |-> "nil"]

Line(kind, marker, name, text) ==
    [kind |-> kind, marker |-> marker, name |-> name, text |-> text]

\* the switch on `result` in printStatus and logsExec
Marker(result) ==
    IF result = <<"SUCCESS">> THEN "Ok"
    ELSE IF result = <<"FAILURE">> THEN "Failed"
    ELSE "Unknown"

\* fmt.Sprintf("UNKNOWN (%v)", err)
UnknownResult(e) == <<"UNKNOWN (", e, ")">>

(***************************************************************************)
(* main: the start-up checks, authentication and dispatch.                 *)
(***************************************************************************)
Envs == [url : {"", "http://ci"}, user : {"", "admin"}, pw : {"", "secret"}]

Idle ==
    /\ cmd = ""
    /\ authed = FALSE
    /\ reqs = {}
    /\ items = <<>>
    /\ idx = 0
    /\ wg = 0
    /\ wpc = <<>>
    /\ wres = <<>>
    /\ werr = <<>>
    /\ out = <<>>
    /\ tabs = <<>>
    /\ err = "nil"
    /\ exit = [code |-> 0, diag |-> ""]
    /\ args = NoArgs
    /\ logs = NoLogs

Init ==
    /\ env \in Envs
    /\ pc = "main"
    /\ Idle
    /\ mIn = [jobs |-> <<>>, regex |-> <<>>]
    /\ mOut = [jobs |-> <<>>, err |-> "nil"]

\* log.Fatal / log.Fatalf: the diagnostic, then os.Exit(1)
Fatal(diag) ==
    /\ pc' = "exit"
    /\ exit' = [code |-> 1, diag |-> diag]

\* an unrecovered panic: the process ends with status 2
Panic(diag) ==
    /\ pc' = "exit"
    /\ exit' = [code |-> 2, diag |-> diag]

MissingURL(e) == e.url = ""

\* a check that lets an empty user name through
MissingUserNever(e) == FALSE

MissingUser(e) == e.user = ""

CheckEnv ==
    /\ pc = "main"
    /\ IF MissingURL(env) THEN Fatal("Please set JENKINS_URL")
       ELSE IF MissingUser(env) THEN Fatal("Please set JENKINS_USER")
       ELSE pc' = "init" /\ UNCHANGED exit
    /\ UNCHANGED <<env, cmd, authed, reqs, items, idx, wg, wpc, wres, werr,
                   out, tabs, err, args, logs, mIn, mOut>>

\* CreateJenkins and jenkins.Init(): a failure panics
Authenticate ==
    /\ pc = "init"
    /\ reqs' = reqs \cup {"Init"}
    /\ \E ok \in BOOLEAN :
          IF ok THEN authed' = TRUE /\ pc' = "parse" /\ UNCHANGED exit
          ELSE Panic("Cannot authenticate") /\ UNCHANGED authed
    /\ UNCHANGED <<env, cmd, items, idx, wg, wpc, wres, werr, out, tabs, err,
                   args, logs, mIn, mOut>>

\* the job names `logs` may be given
LogJobs == {Catalogue[1], Catalogue[2]}

ArgsOf(c) ==
    IF c \in {"status", "queue", "open"}
    THEN {[NoArgs EXCEPT !.regex = r] : r \in Regexes}
    ELSE IF c = "logs"
    THEN {[NoArgs EXCEPT !.job = j, !.salt = b] : j \in LogJobs, b \in BOOLEAN}
    ELSE {NoArgs}

EntryOf(c) ==
    CASE c = "status" -> "status_find"
      [] c = "logs"   -> "logs_getjob"
      [] c = "queue"  -> "queue"
      [] c = "nodes"  -> "nodes_get"
      [] c = "open"   -> "open_find"

\* kingpin.Parse() selected one of the five commands
DispatchCommand ==
    /\ \E c \in Commands :
          /\ cmd' = c
          /\ args' \in ArgsOf(c)
          /\ pc' = EntryOf(c)
    /\ UNCHANGED exit

\* default: kingpin.Usage() (written to standard error); err stays nil
DispatchDefault ==
    /\ pc' = "errcheck"
    /\ UNCHANGED <<cmd, args, exit>>

\* kingpin.Parse() ends the process itself on a command line it rejects
ParseExit ==
    /\ Fatal("kingpin: usage error")
    /\ UNCHANGED <<cmd, args>>

\* switch kingpin.Parse()
Dispatch ==
    /\ pc = "parse"
    /\ (DispatchCommand \/ DispatchDefault \/ ParseExit)
    /\ UNCHANGED <<env, authed, reqs, items, idx, wg, wpc, wres, werr, out,
                   tabs, err, logs, mIn, mOut>>

\* if err != nil { log.Fatalf(...) }, else main returns
ErrCheck ==
    /\ pc = "errcheck"
    /\ IF err # "nil" THEN Fatal("Cannot execute command")
       ELSE pc' = "exit" /\ exit' = [code |-> 0, diag |-> ""]
    /\ UNCHANGED <<env, cmd, authed, reqs, items, idx, wg, wpc, wres, werr,
                   out, tabs, err, args, logs, mIn, mOut>>

(***************************************************************************)
(* sync.WaitGroup                                                          *)
(***************************************************************************)
WaitGroupAdd(c, n) == c + n

\* a Done that is not run (no defer on some path)
WaitGroupDoneNone(c) == c

\* waitGroup.Done()
WaitGroupDone(c) == c - 1

\* a Wait that does not block
WaitGroupWaitNoBlock(c) == TRUE

\* Wait returns only when the counter is zero
WaitGroupWait(c) == c = 0

Workers == 1..Len(items)

\* what a goroutine leaves alone; the goroutines end when the process exits
Running(c) == cmd = c /\ pc # "exit"

MainFrame ==
    UNCHANGED <<env, pc, cmd, authed, items, idx, tabs, err, exit, args, logs,
                mIn, mOut>>

\* the deferred waitGroup.Done() of a goroutine that has returned
WorkerDone(i) ==
    /\ Running("status") \/ Running("nodes")
    /\ wpc[i] = "return"
    /\ wg' = WaitGroupDone(wg)
    /\ wpc' = [wpc EXCEPT ![i] = "done"]
    /\ UNCHANGED <<wres, werr, out, reqs>>
    /\ MainFrame

(***************************************************************************)
(* status                                                                  *)
(***************************************************************************)
StatusFind ==
    /\ pc = "status_find"
    /\ reqs' = reqs \cup {"GetAllJobNames"}
    /\ \/ /\ err' = "GetAllJobNames failed"
          /\ pc' = "errcheck"
          /\ UNCHANGED <<items, wpc, wres, werr>>
       \/ \E n \in 0..MaxJobs :
             LET found == findMatchingJobs(JobList(n), args.regex) IN
             /\ items' = found.jobs
             /\ wpc' = [i \in 1..Len(found.jobs) |-> "idle"]
             /\ wres' = [i \in 1..Len(found.jobs) |-> <<>>]
             /\ werr' = [i \in 1..Len(found.jobs) |-> "nil"]
             /\ pc' = "status_add"
             /\ UNCHANGED err
    /\ UNCHANGED <<env, cmd, authed, idx, wg, out, tabs, exit, args, logs,
                   mIn, mOut>>

\* waitGroup.Add(len(jobs))
StatusAdd ==
    /\ pc = "status_add"
    /\ wg' = WaitGroupAdd(wg, Len(items))
    /\ pc' = "status_launch"
    /\ UNCHANGED <<env, cmd, authed, reqs, items, idx, wpc, wres, werr, out,
                   tabs, err, exit, args, logs, mIn, mOut>>

\* go printStatus(&waitGroup, jenkins, job)
StatusLaunch ==
    /\ pc = "status_launch"
    /\ idx < Len(items)
    /\ idx' = idx + 1
    /\ wpc' = [wpc EXCEPT ![idx + 1] = "getjob"]
    /\ UNCHANGED <<env, pc, cmd, authed, reqs, items, wg, wres, werr, out,
                   tabs, err, exit, args, logs, mIn, mOut>>

\* return nil, which runs the deferred waitGroup.Wait()
StatusReturn ==
    /\ pc = "status_launch"
    /\ idx = Len(items)
    /\ WaitGroupWait(wg)
    /\ err' = "nil"
    /\ pc' = "errcheck"
    /\ UNCHANGED <<env, cmd, authed, reqs, items, idx, wg, wpc, wres, werr,
                   out, tabs, exit, args, logs, mIn, mOut>>

\* build, err := jenkins.GetJob(job.Name); if err != nil { return err }
PrintStatusGetJob(i) ==
    /\ Running("status")
    /\ wpc[i] = "getjob"
    /\ reqs' = reqs \cup {"GetJob"}
    /\ \E ok \in BOOLEAN :
          IF ok THEN wpc' = [wpc EXCEPT ![i] = "getlast"] /\ UNCHANGED werr
          ELSE /\ wpc' = [wpc EXCEPT ![i] = "return"]
               /\ werr' = [werr EXCEPT ![i] = "GetJob failed"]
    /\ UNCHANGED <<wg, wres, out>>
    /\ MainFrame

\* lastBuild, err := build.GetLastBuild() and the choice of `result`
PrintStatusGetLastBuild(i) ==
    /\ Running("status")
    /\ wpc[i] = "getlast"
    /\ reqs' = reqs \cup {"GetLastBuild"}
    /\ \/ wres' = [wres EXCEPT ![i] = UnknownResult("GetLastBuild failed")]
       \/ \E r \in Results : wres' = [wres EXCEPT ![i] = <<r>>]
    /\ wpc' = [wpc EXCEPT ![i] = "print"]
    /\ UNCHANGED <<wg, werr, out>>
    /\ MainFrame

\* the switch and fmt.Printf("%v %v (%v)\n", marker, job.Name, job.Url)
PrintStatusPrint(i) ==
    /\ Running("status")
    /\ wpc[i] = "print"
    /\ out' = Append(out, Line("status", Marker(wres[i]), items[i].Name, items[i].Url))
    /\ wpc' = [wpc EXCEPT ![i] = "return"]
    /\ UNCHANGED <<wg, wres, werr, reqs>>
    /\ MainFrame

(***************************************************************************)
(* nodes                                                                   *)
(***************************************************************************)
NodesGet ==
    /\ pc = "nodes_get"
    /\ reqs' = reqs \cup {"GetAllNodes"}
    /\ \/ /\ err' = "GetAllNodes failed"
          /\ pc' = "errcheck"
          /\ UNCHANGED <<items, wpc, wres, werr>>
       \/ \E n \in 0..MaxNodes :
             LET nodes == NodeList(n) IN
             /\ items' = nodes
             /\ wpc' = [i \in 1..Len(nodes) |-> "idle"]
             /\ wres' = [i \in 1..Len(nodes) |-> <<>>]
             /\ werr' = [i \in 1..Len(nodes) |-> "nil"]
             /\ pc' = "nodes_add"
             /\ UNCHANGED err
    /\ UNCHANGED <<env, cmd, authed, idx, wg, out, tabs, exit, args, logs,
                   mIn, mOut>>

\* waitGroup.Add(len(nodes))
NodesAdd ==
    /\ pc = "nodes_add"
    /\ wg' = WaitGroupAdd(wg, Len(items))
    /\ pc' = "nodes_launch"
    /\ UNCHANGED <<env, cmd, authed, reqs, items, idx, wpc, wres, werr, out,
                   tabs, err, exit, args, logs, mIn, mOut>>

\* go printNodeStatus(&waitGroup, *node)
NodesLaunch ==
    /\ pc = "nodes_launch"
    /\ idx < Len(items)
    /\ idx' = idx + 1
    /\ wpc' = [wpc EXCEPT ![idx + 1] = "poll"]
    /\ UNCHANGED <<env, pc, cmd, authed, reqs, items, wg, wres, werr, out,
                   tabs, err, exit, args, logs, mIn, mOut>>

\* return nil, which runs the deferred waitGroup.Wait()
NodesReturn ==
    /\ pc = "nodes_launch"
    /\ idx = Len(items)
    /\ WaitGroupWait(wg)
    /\ err' = "nil"
    /\ pc' = "errcheck"
    /\ UNCHANGED <<env, cmd, authed, reqs, items, idx, wg, wpc, wres, werr,
                   out, tabs, exit, args, logs, mIn, mOut>>

\* node.Poll(): what it returns is dropped; wres keeps how the poll went
PrintNodeStatusPoll(i) ==
    /\ Running("nodes")
    /\ wpc[i] = "poll"
    /\ reqs' = reqs \cup {"Poll"}
    /\ \E polled \in {"poll ok", "poll failed"} :
          wres' = [wres EXCEPT ![i] = <<polled>>]
    /\ wpc' = [wpc EXCEPT ![i] = "isonline"]
    /\ UNCHANGED <<wg, werr, out>>
    /\ MainFrame

\* online, err := node.IsOnline() and the line printed for the node
PrintNodeStatusIsOnline(i) ==
    /\ Running("nodes")
    /\ wpc[i] = "isonline"
    /\ reqs' = reqs \cup {"IsOnline"}
    /\ \/ /\ werr' = [werr EXCEPT ![i] = "IsOnline failed"]
          /\ UNCHANGED out
       \/ \E online \in BOOLEAN :
             /\ out' = Append(out, Line("node", "", items[i].Name,
                                        IF online THEN <<"Online">> ELSE <<"Offline">>))
             /\ UNCHANGED werr
    /\ wpc' = [wpc EXCEPT ![i] = "return"]
    /\ UNCHANGED <<wg, wres>>
    /\ MainFrame

(***************************************************************************)
(* logs                                                                    *)
(***************************************************************************)
\* build, err := jenkins.GetJob(jobName); if err != nil { return err }
LogsGetJob ==
    /\ pc = "logs_getjob"
    /\ reqs' = reqs \cup {"GetJob"}
    /\ \E ok \in BOOLEAN :
          IF ok THEN pc' = "logs_getlast" /\ UNCHANGED <<err, logs>>
          ELSE /\ err' = "GetJob failed"
               /\ logs' = [logs EXCEPT !.jobErr = "GetJob failed"]
               /\ pc' = "errcheck"
    /\ UNCHANGED <<env, cmd, authed, items, idx, wg, wpc, wres, werr, out,
                   tabs, exit, args, mIn, mOut>>

\* lastBuild, err := build.GetLastBuild(): a nil *Build comes with an error
LogsGetLastBuild ==
    /\ pc = "logs_getlast"
    /\ reqs' = reqs \cup {"GetLastBuild"}
    /\ \/ logs' = [logs EXCEPT !.lastBuild = NilBuild,
                               !.buildErr = "GetLastBuild failed",
                               !.result = UnknownResult("GetLastBuild failed")]
       \/ \E r \in Results :
             logs' = [logs EXCEPT !.lastBuild = [isNil |-> FALSE,
                                                 Url |-> Job(args.job).Url \o <<"/", "7">>],
                                  !.result = <<r>>]
    /\ pc' = "logs_print"
    /\ UNCHANGED <<env, cmd, authed, items, idx, wg, wpc, wres, werr, out,
                   tabs, err, exit, args, mIn, mOut>>

\* the status line and the result code; lastBuild.GetUrl() is evaluated
\* before anything is printed and dereferences lastBuild
LogsPrintStatus ==
    /\ pc = "logs_print"
    /\ IF logs.lastBuild.isNil
       THEN Panic("nil pointer dereference") /\ UNCHANGED out
       ELSE /\ out' = out \o
                 << Line("status", Marker(logs.result), args.job, logs.lastBuild.Url),
                    Line("result", "", <<>>, logs.result) >>
            /\ pc' = "logs_console"
            /\ UNCHANGED exit
    /\ UNCHANGED <<env, cmd, authed, reqs, items, idx, wg, wpc, wres, werr,
                   tabs, err, args, logs, mIn, mOut>>

\* what is written for the console output: the failed salt states, one
\* Println each, or fmt.Printf(consoleOutput)
ConsoleLines(consoleOutput, salt) ==
    IF salt
    THEN LET failed == getFailedSaltStates(consoleOutput) IN
         [k \in 1..Len(failed) |-> Line("state", "", <<>>, failed[k])]
    ELSE << Line("console", "", <<>>, Printf(consoleOutput)) >>

\* lastBuild.GetConsoleOutput(), the console lines, the consoleText pointer
LogsConsole ==
    /\ pc = "logs_console"
    /\ reqs' = reqs \cup {"GetConsoleOutput"}
    /\ \E text \in ConsoleTexts :
          /\ logs' = [logs EXCEPT !.consoleOutput = text]
          /\ out' = out \o ConsoleLines(text, args.salt)
                        \o << Line("pointer", "", <<>>,
                                   logs.lastBuild.Url \o <<"/consoleText">>) >>
    /\ err' = "nil"
    /\ pc' = "errcheck"
    /\ UNCHANGED <<env, cmd, authed, items, idx, wg, wpc, wres, werr, tabs,
                   exit, args, mIn, mOut>>

(***************************************************************************)
(* queue                                                                   *)
(***************************************************************************)
Queue ==
    /\ pc = "queue"
    /\ reqs' = reqs \cup {"GetQueue"}
    /\ \E ok \in BOOLEAN :
          IF ok THEN /\ out' = Append(out, Line("queue", "", <<>>, <<"raw">>))
                     /\ err' = "nil"
          ELSE err' = "GetQueue failed" /\ UNCHANGED out
    /\ pc' = "errcheck"
    /\ UNCHANGED <<env, cmd, authed, items, idx, wg, wpc, wres, werr, tabs,
                   exit, args, logs, mIn, mOut>>

(***************************************************************************)
(* open                                                                    *)
(***************************************************************************)
MaxOpen == 3

\* a guard that is off by one
TooManyJobsOff(jobs) == Len(jobs) > MaxOpen + 1

TooManyJobs(jobs) == Len(jobs) > MaxOpen

OpenFind ==
    /\ pc = "open_find"
    /\ reqs' = reqs \cup {"GetAllJobNames"}
    /\ \/ /\ err' = "GetAllJobNames failed"
          /\ pc' = "errcheck"
          /\ UNCHANGED items
       \/ \E n \in 0..MaxOpenJobs :
             /\ items' = findMatchingJobs(JobList(n), args.regex).jobs
             /\ pc' = "open_check"
             /\ UNCHANGED err
    /\ UNCHANGED <<env, cmd, authed, idx, wg, wpc, wres, werr, out, tabs,
                   exit, args, logs, mIn, mOut>>

\* if len(jobs) > 3 { log.Fatalf(...) }
OpenCheck ==
    /\ pc = "open_check"
    /\ IF TooManyJobs(items) THEN Fatal("More than three jobs match your criteria")
       ELSE pc' = "open_run" /\ UNCHANGED exit
    /\ UNCHANGED <<env, cmd, authed, reqs, items, idx, wg, wpc, wres, werr,
                   out, tabs, err, args, logs, mIn, mOut>>

\* open.Run(job.Url), whose result is dropped
OpenRun ==
    /\ pc = "open_run"
    /\ idx < Len(items)
    /\ idx' = idx + 1
    /\ tabs' = Append(tabs, items[idx + 1].Url)
    /\ UNCHANGED <<env, pc, cmd, authed, reqs, items, wg, wpc, wres, werr,
                   out, err, exit, args, logs, mIn, mOut>>

OpenReturn ==
    /\ pc = "open_run"
    /\ idx = Len(items)
    /\ err' = "nil"
    /\ pc' = "errcheck"
    /\ UNCHANGED <<env, cmd, authed, reqs, items, idx, wg, wpc, wres, werr,
                   out, tabs, exit, args, logs, mIn, mOut>>

(***************************************************************************)
(* The program.                                                            *)
(***************************************************************************)
Next ==
    \/ CheckEnv
    \/ Authenticate
    \/ Dispatch
    \/ ErrCheck
    \/ StatusFind
    \/ StatusAdd
    \/ StatusLaunch
    \/ StatusReturn
    \/ \E i \in Workers : PrintStatusGetJob(i)
    \/ \E i \in Workers : PrintStatusGetLastBuild(i)
    \/ \E i \in Workers : PrintStatusPrint(i)
    \/ \E i \in Workers : WorkerDone(i)
    \/ NodesGet
    \/ NodesAdd
    \/ NodesLaunch
    \/ NodesReturn
    \/ \E i \in Workers : PrintNodeStatusPoll(i)
    \/ \E i \in Workers : PrintNodeStatusIsOnline(i)
    \/ LogsGetJob
    \/ LogsGetLastBuild
    \/ LogsPrintStatus
    \/ LogsConsole
    \/ Queue
    \/ OpenFind
    \/ OpenCheck
    \/ OpenRun
    \/ OpenReturn

Spec == Init /\ [][Next]_vars

(***************************************************************************)
(* findMatchingJobs on its own: every job list and pattern within the      *)
(* bounds.                                                                 *)
(***************************************************************************)
Names == { Catalogue[i] : i \in 1..Len(Catalogue) }

Injective(f) == \A i, j \in DOMAIN f : f[i] = f[j] => i = j

\* job names are unique on a server
MatchJobLists ==
    { [i \in DOMAIN f |-> Job(f[i])] :
        f \in { g \in UNION { [1..k -> Names] : k \in 0..MaxMatchJobs } : Injective(g) } }

PatChars == {"a", "b", ".", "*", "["}

Patterns == UNION { [1..k -> PatChars] : k \in 0..MaxPat }

InitMatch ==
    /\ env = [url |-> "http://ci", user |-> "admin", pw |-> "secret"]
    /\ pc = "match"
    /\ Idle
    /\ mIn \in [jobs : MatchJobLists, regex : Patterns]
    /\ mOut = [jobs |-> <<>>, err |-> "nil"]

MatchCall ==
    /\ pc = "match"
    /\ mOut' = findMatchingJobs(mIn.jobs, mIn.regex)
    /\ pc' = "matched"
    /\ UNCHANGED <<env, cmd, authed, reqs, items, idx, wg, wpc, wres, werr,
                   out, tabs, err, exit, args, logs, mIn>>

NextMatch == MatchCall

SpecMatch == InitMatch /\ [][NextMatch]_vars

(***************************************************************************)
(* Properties.                                                             *)
(***************************************************************************)
FanOut == cmd \in {"status", "nodes"}

\* the subcommand has returned to main (or the process has ended)
Returned == pc \in {"errcheck", "exit"}

Finished(i) == wpc[i] \in {"return", "done"}

\* the lines of standard output that belong to item i
LinesOf(i) == {k \in 1..Len(out) : out[k].name = items[i].Name}

\* C1: when status or nodes has returned without error, standard output
\* holds exactly one line per item, whichever items failed.
C1_OneLinePerItem ==
    (FanOut /\ Returned /\ err = "nil") =>
        /\ Len(out) = Len(items)
        /\ \A i \in DOMAIN wpc : Cardinality(LinesOf(i)) = 1

\* C2: statusExec and nodes have returned only if every launched goroutine
\* is done and every goroutine that did not fail has written its line; with
\* no items the deferred Wait does not block, nothing is printed and the
\* only error possible is that of listing the jobs or nodes.
C2_ReturnAfterAllWorkers ==
    FanOut =>
        /\ Returned =>
              /\ \A i \in DOMAIN wpc : wpc[i] = "done"
              /\ \A i \in DOMAIN wpc : werr[i] = "nil" => Cardinality(LinesOf(i)) = 1
              /\ err \in {"nil", "GetAllJobNames failed", "GetAllNodes failed"}
              /\ items = <<>> => out = <<>>
        /\ (pc \in {"status_launch", "nodes_launch"} /\ items = <<>>) => wg = 0

C2_Witness ==
    /\ FanOut
    /\ pc = "exit"
    /\ Len(items) >= 2
    /\ \E i, j \in DOMAIN wpc : i # j /\ wpc[i] = "done" /\ wpc[j] = "done"
    /\ Len(out) >= 2

\* C3: every job printStatus has finished with has a line whose marker is Ok
\* for result "SUCCESS", Failed for "FAILURE" and Unknown for any other
\* result and for a failed job fetch or last-build fetch.
C3_MarkerOfResult ==
    cmd = "status" =>
        \A i \in DOMAIN wpc : Finished(i) =>
            \E k \in LinesOf(i) :
                out[k].marker =
                    IF werr[i] # "nil" THEN "Unknown"
                    ELSE IF wres[i] = <<"SUCCESS">> THEN "Ok"
                    ELSE IF wres[i] = <<"FAILURE">> THEN "Failed"
                    ELSE "Unknown"

\* C4: open with 4 or more matching jobs ends fatally with no tab opened;
\* with k <= 3 matching jobs it opens the k job URLs, one each, in the order
\* of the matched jobs.
C4_OpenTabs ==
    cmd = "open" =>
        /\ Len(tabs) <= Len(items)
        /\ \A k \in 1..Len(tabs) : tabs[k] = items[k].Url
        /\ Len(items) >= 4 =>
              /\ tabs = <<>>
              /\ pc \in {"open_check", "exit"}
              /\ pc = "exit" => exit = [code |-> 1, diag |-> "More than three jobs match your criteria"]
        /\ (Len(items) <= 3 /\ Returned) => Len(tabs) = Len(items)

C4_Witness ==
    /\ cmd = "open"
    /\ pc = "exit"
    /\ Len(items) >= 4
    /\ tabs = <<>>
    /\ exit.code = 1

\* C5: a subcommand is dispatched, or a request of a subcommand sent, only
\* with a non-empty URL and user name and after Init succeeded; a missing URL
\* or user name ends the run with the diagnostic naming it.
C5_NoDispatchWithoutConfig ==
    /\ (cmd # "" \/ reqs \ {"Init"} # {}) =>
          (env.url # "" /\ env.user # "" /\ authed)
    /\ (env.url = "" \/ env.user = "") => pc \in {"main", "exit"}
    /\ (pc = "exit" /\ env.url = "") =>
          exit = [code |-> 1, diag |-> "Please set JENKINS_URL"]
    /\ (pc = "exit" /\ env.url # "" /\ env.user = "") =>
          exit = [code |-> 1, diag |-> "Please set JENKINS_USER"]

C5_Witness ==
    /\ pc = "exit"
    /\ env.url # ""
    /\ env.user = ""
    /\ exit.diag = "Please set JENKINS_USER"
    /\ cmd = ""

\* C6: when the job fetch or the last-build fetch of logs failed, the
\* command ends with its error propagated to main and nothing printed.
C6_LogsAbortsWithError ==
    (cmd = "logs" /\ pc = "exit"
        /\ (logs.jobErr # "nil" \/ logs.buildErr # "nil")) =>
        /\ out = <<>>
        /\ err # "nil"
        /\ exit = [code |-> 1, diag |-> "Cannot execute command"]

\* C7: without --salt, what logs writes for the console output is the text
\* the server returned, character for character.
C7_ConsoleVerbatim ==
    (cmd = "logs" /\ ~args.salt /\ Returned) =>
        \A k \in 1..Len(out) :
            out[k].kind = "console" => out[k].text = logs.consoleOutput

\* C8: findMatchingJobs returns, without error, the jobs whose name the
\* pattern matches somewhere, each once and in the order of the job list; a
\* pattern that does not compile matches no job.
IsLiteral(p) == \A k \in 1..Len(p) : p[k] \in {"a", "b"}

C8_MatchingJobs ==
    pc = "matched" =>
        LET J == mIn.jobs
            P == mIn.regex
            R == mOut.jobs
            M == {i \in 1..Len(J) : MatchString(P, J[i].Name).match}
        IN  /\ mOut.err = "nil"
            /\ \E f \in [1..Len(R) -> 1..Len(J)] :
                  /\ \A a, b \in 1..Len(R) : a < b => f[a] < f[b]
                  /\ {f[k] : k \in 1..Len(R)} = M
                  /\ \A k \in 1..Len(R) : R[k] = J[f[k]]
            /\ IsLiteral(P) => M = {i \in 1..Len(J) : Contains(J[i].Name, P)}
            /\ P = <<".", "*">> => R = J
            /\ MatchString(P, <<>>).err # "nil" => R = <<>>

C8_Witness ==
    /\ pc = "matched"
    /\ Len(mIn.jobs) = 3
    /\ Len(mOut.jobs) = 2
    /\ mOut.jobs[1] = mIn.jobs[1]
    /\ mOut.jobs[2] = mIn.jobs[3]

\* C9: a node whose Poll() failed gets no Online/Offline line, and the
\* failure is what printNodeStatus returns.
C9_NoLineAfterFailedPoll ==
    cmd = "nodes" =>
        \A i \in DOMAIN wpc :
            (Finished(i) /\ wres[i] = <<"poll failed">>) =>
                (werr[i] # "nil" /\ LinesOf(i) = {})

\* C10: no goroutine is launched before the counter is set; from then on the
\* counter is the number of goroutines that are not done, so it is never
\* negative and is zero exactly when all are done.
C10_CounterCountsUnfinished ==
    FanOut =>
        /\ wg >= 0
        /\ pc \in {"status_find", "status_add", "nodes_get", "nodes_add"} =>
              \A i \in DOMAIN wpc : wpc[i] = "idle"
        /\ pc \notin {"status_find", "status_add", "nodes_get", "nodes_add"} =>
              /\ wg = Cardinality({i \in DOMAIN wpc : wpc[i] # "done"})
              /\ wg = 0 <=> \A i \in DOMAIN wpc : wpc[i] = "done"

C10_Witness ==
    /\ FanOut
    /\ Len(items) >= 2
    /\ wg = 0
    /\ \E i, j \in DOMAIN wpc :
          /\ werr[i] # "nil" /\ wpc[i] = "done"
          /\ werr[j] = "nil" /\ wpc[j] = "done"
====
